---- MODULE Spec2Model ----
(***************************************************************************)
(* Dependency sequencing and construction dispatch of io-fault/integration *)
(*   src/images/graph.py            traverse, sequence                      *)
(*   src/factors/libconstruct.py    collect, traverse, sequence, updated,   *)
(*                                  rebuild, transform, reduce, probe_*,    *)
(*                                  Construction                            *)
(***************************************************************************)
EXTENDS Integers, Sequences, FiniteSets, TLC

VARIABLES
    \* ---- the sequence generators (graph.sequence, libconstruct.sequence)
    impl,        \* "graph" or "libconstruct": which generator is running
    dg,          \* the dependency relation of the modules: module -> set of modules
    targets,     \* the modules handed to sequence() as initial nodes
    gpc,         \* position of the generator
    tree,        \* node -> set of dependencies not yet completed
    inverse,     \* node -> set of dependents
    working,     \* emitted and not yet completed
    new,         \* the batch of the current yield
    received,    \* the completion last processed by the generator
    completed,   \* history: every node processed as completed
    emitted,     \* history: every node that was part of a yielded batch
    emitc,       \* history: module -> number of batches that held the module
    disciplined, \* history: the caller only ever sent emitted nodes, each once
    \* ---- a call of updated(outputs, inputs, requirement)
    u_outputs,   \* sequence of files
    u_inputs,    \* sequence of files
    u_requirement, \* <<>> for None, <<t>> for a time
    u_result,    \* "pending", or the outcome of the call
    \* ---- Construction: the filter, and the collection of one factor's work
    k_reconstruct, \* Construction.reconstruct
    k_requirement, \* Construction.requirement: <<>> for None, <<t>> for a time
    k_filter,    \* Construction._filter, <<>> before actuate
    f_call,      \* which part of collect is modelled
    f_ctx,       \* the mechanism and context of the factor being collected
    f_pc,        \* position in collect: transform, its sources, reduce
    f_emitted,   \* transform: the directories already emitted
    f_n,         \* transform: number of sources reached
    f_last,      \* transform: <<what is recorded of the source reached last>>
    f_ins,       \* transform: the instructions yielded for that source
    f_xf,        \* the transform instruction list so far
    f_red,       \* what reduce was called with
    f_rd,        \* the reduce instruction list
    \* ---- Construction: the dispatch of the work of the sequenced factors
    kinds,       \* module -> what kind of factor the module is
    keyed,       \* whether the probe module defines key()
    process_limit, \* Construction.process_limit
    cache,       \* module -> the cache file of the probe
    runs,        \* number of Constructions created over the cache files so far
    tracking,    \* Construction.tracking: factor -> sequence of instruction sets
    progress,    \* Construction.progress: factor -> count
    process_count, \* Construction.process_count
    command_queue, \* Construction.command_queue
    continued,   \* Construction.continued: a continuation task is enqueued
    activity,    \* Construction.activity
    procs,       \* factor -> number of its subprocesses started and not exited
    threads,     \* the probe threads whose deploy() has not returned
    tasks,       \* the enqueued probe_exit tasks
    terminated,  \* terminate() was called
    halted,      \* "none", or what stopped the processor
    probe_log,   \* history: the probe_execute calls of this Construction
    recorded,    \* history: <<module, key>> of every report probe_exit recorded
    collected,   \* history: factor -> number of instructions collected for it
    counted,     \* history: factor -> number of instructions counted in progress
    \* ---- a call of merge(parameters, source)
    m_parameters, \* the dict merged into
    m_source,    \* the dict merged from
    m_before,    \* history: parameters as it was before the call
    m_result,    \* "pending", "returned", or the exception raised
    \* ---- an SQueue
    q_sequence,  \* the sequence the SQueue was built from
    q_items,     \* SQueue.items
    q_count,     \* SQueue.count
    q_taken,     \* history: the results of take, concatenated
    q_last       \* what the call made last returned

seqVars == <<impl, dg, targets, gpc, tree, inverse, working, new, received,
             completed, emitted, emitc, disciplined>>

updVars == <<u_outputs, u_inputs, u_requirement, u_result>>

filtVars == <<k_reconstruct, k_requirement, k_filter>>

collVars == <<f_call, f_ctx, f_pc, f_emitted, f_n, f_last, f_ins, f_xf, f_red, f_rd>>

consVars == <<kinds, keyed, process_limit, cache, runs, tracking, progress,
              process_count, command_queue, continued, activity, procs, threads,
              tasks, terminated, halted, probe_log, recorded, collected, counted>>

mergeVars == <<m_parameters, m_source, m_before, m_result>>

queueVars == <<q_sequence, q_items, q_count, q_taken, q_last>>

vars == <<seqVars, updVars, filtVars, collVars, consVars, mergeVars, queueVars>>

----------------------------------------------------------------------------
\* Bounds of the model.

\* Largest number of nodes in one completion collection sent by the caller.
MaxCompletion == 2

\* Largest number of batches a module is counted in.
MaxEmit == 3

\* Largest number of files in the outputs and in the inputs of updated().
MaxFiles == 2

\* Modification times are 0..MaxTime; 0 is the zero point of the time scale.
MaxTime == 2

\* Largest number of sources of a factor.
MaxSources == 2

\* Largest number of processors a Construction is created with.
MaxProcessors == 2

\* Largest number of Constructions run one after the other.
MaxRuns == 2

\* Integers held by merged parameters are 0..MaxInt.
MaxInt == 1

\* Members of merged sets, lists and tuples are 1..MaxItem.
MaxItem == 2

\* The factor modules.
Modules == {"a", "b", "c"}

\* The import edges a graph is drawn from: every acyclic graph of three
\* modules up to renaming, closed by a back edge and self references.
Edges == {<<"a", "b">>, <<"a", "c">>, <<"b", "c">>,
          <<"c", "a">>, <<"a", "a">>, <<"c", "c">>}

Graphs == {[m \in Modules |-> {e[2] : e \in {f \in E : f[1] = m}}] : E \in SUBSET Edges}

----------------------------------------------------------------------------
\* Finite maps with dict semantics.

EmptyMap == [x \in {} |-> {}]

\* dict.__setitem__
Put(d, k, v) == [x \in DOMAIN d \cup {k} |-> IF x = k THEN v ELSE d[x]]

\* del d[k]
Del(d, k) == [x \in DOMAIN d \ {k} |-> d[x]]

\* collections.defaultdict(set).__getitem__, read only
Get(d, k) == IF k \in DOMAIN d THEN d[k] ELSE {}

\* Orderings of a set: the orders in which a collection can be iterated.
RECURSIVE Orders(_)
Orders(S) ==
    IF S = {} THEN {<<>>}
    ELSE UNION {{<<x>> \o o : o \in Orders(S \ {x})} : x \in S}

Range(s) == {s[i] : i \in DOMAIN s}

\* The order in which a collection is iterated.
SetToSeq(S) == CHOOSE o \in Orders(S) : TRUE

Last(s) == s[Len(s)]

\* Modules reachable from a set of modules along the dependency relation.
RECURSIVE Reach(_, _)
Reach(g, S) ==
    LET T == S \cup UNION {g[m] : m \in S}
    IN  IF T = S THEN S ELSE Reach(g, T)

\* A module that reaches itself is on a cycle.
Cyclic(g, S) == \E m \in Reach(g, S) : m \in Reach(g, g[m])

----------------------------------------------------------------------------
\* The parts of the state a specification does not use keep these values.

\* No sequence generator is modelled.
SeqIdle ==
    /\ impl = "libconstruct"
    /\ dg = [m \in Modules |-> {}]
    /\ targets = {}
    /\ gpc = "created"
    /\ tree = EmptyMap
    /\ inverse = EmptyMap
    /\ working = {}
    /\ new = {}
    /\ received = {}
    /\ completed = {}
    /\ emitted = {}
    /\ emitc = [m \in Modules |-> 0]
    /\ disciplined = TRUE

\* No call of updated() is modelled.
UpdIdle ==
    /\ u_outputs = <<>>
    /\ u_inputs = <<>>
    /\ u_requirement = <<>>
    /\ u_result = "pending"

\* No Construction is modelled.
FiltIdle ==
    /\ k_reconstruct = FALSE
    /\ k_requirement = <<>>
    /\ k_filter = <<>>

\* No collection of a factor's work is modelled.
CollIdle ==
    /\ f_call = "none"
    /\ f_ctx = <<>>
    /\ f_pc = "idle"
    /\ f_emitted = {}
    /\ f_n = 0
    /\ f_last = <<>>
    /\ f_ins = <<>>
    /\ f_xf = <<>>
    /\ f_red = <<>>
    /\ f_rd = <<>>

\* The cache file of a probe that was never run.
NoFile == [state |-> "absent", reports |-> EmptyMap]

\* No dispatch of work is modelled.
ConsIdle ==
    /\ kinds = [m \in Modules |-> "library"]
    /\ keyed = FALSE
    /\ process_limit = 1
    /\ cache = [m \in Modules |-> NoFile]
    /\ runs = 0
    /\ tracking = EmptyMap
    /\ progress = EmptyMap
    /\ process_count = 0
    /\ command_queue = <<>>
    /\ continued = FALSE
    /\ activity = {}
    /\ procs = EmptyMap
    /\ threads = {}
    /\ tasks = {}
    /\ terminated = FALSE
    /\ halted = "none"
    /\ probe_log = {}
    /\ recorded = {}
    /\ collected = EmptyMap
    /\ counted = EmptyMap

\* No call of merge() is modelled.
MergeIdle ==
    /\ m_parameters = EmptyMap
    /\ m_source = EmptyMap
    /\ m_before = EmptyMap
    /\ m_result = "pending"

\* No SQueue is modelled.
QueueIdle ==
    /\ q_sequence = <<>>
    /\ q_items = <<>>
    /\ q_count = 0
    /\ q_taken = <<>>
    /\ q_last = <<>>

----------------------------------------------------------------------------
\* Nodes.  A node of graph.sequence is hashed by value: <<m>>.  A node of
\* libconstruct.sequence is a Factor instance, which defines neither __eq__
\* nor __hash__ and so is a key by identity; collect() constructs a new
\* instance for every reference, so an instance is identified by the chain of
\* references that led to its construction.

\* Factor.module
module(node) == Last(node)

\* graph.py: directory(node), supplied by the caller
directory(g, node) == {<<d>> : d \in g[module(node)]}

\* libconstruct.py: set(collect(factor)), one new Factor per imported module
collect(g, factor) == {Append(factor, d) : d \in g[module(factor)]}

TraverseState == [working |-> {}, tree |-> EmptyMap, inverse |-> EmptyMap]

RECURSIVE graph_traverse(_, _, _), graph_traverse_deps(_, _, _, _)
graph_traverse(g, st, node) ==
    LET deps == directory(g, node)
    IN  IF deps = {} THEN [st EXCEPT !.working = @ \cup {node}]
        ELSE IF node \in DOMAIN st.tree THEN st
        ELSE graph_traverse_deps(g, [st EXCEPT !.tree = Put(@, node, deps)], node, deps)

graph_traverse_deps(g, st, node, rest) ==
    IF rest = {} THEN st
    ELSE LET x == CHOOSE y \in rest : TRUE
             st1 == [st EXCEPT !.inverse = Put(@, x, Get(@, x) \cup {node})]
         IN  graph_traverse_deps(g, graph_traverse(g, st1, x), node, rest \ {x})

RECURSIVE traverse(_, _, _), traverse_deps(_, _, _, _)
traverse(g, st, factor) ==
    LET deps == collect(g, factor)
    IN  IF deps = {} THEN [st EXCEPT !.working = @ \cup {factor}]
        ELSE IF factor \in DOMAIN st.tree THEN st
        ELSE traverse_deps(g, [st EXCEPT !.tree = Put(@, factor, deps)], factor, deps)

traverse_deps(g, st, factor, rest) ==
    IF rest = {} THEN st
    ELSE LET x == CHOOSE y \in rest : TRUE
             st1 == [st EXCEPT !.inverse = Put(@, x, Get(@, x) \cup {factor})]
         IN  traverse_deps(g, traverse(g, st1, x), factor, rest \ {x})

\* for node in nodes: traverse(...)
RECURSIVE traverse_all(_, _, _, _)
traverse_all(which, g, st, rest) ==
    IF rest = {} THEN st
    ELSE LET t == CHOOSE y \in rest : TRUE
             st1 == IF which = "graph" THEN graph_traverse(g, st, <<t>>)
                    ELSE traverse(g, st, <<t>>)
         IN  traverse_all(which, g, st1, rest \ {t})

----------------------------------------------------------------------------
\* The body of the generators after `yield None`.

\* graph.py: `if not fd`
graph_ready(fd) == fd = {}

\* Mutant of ready: a dependent is released by its first completed dependency.
ready_any(fd) == TRUE

\* Mutant of ready: a dependent is never released.
ready_never(fd) == FALSE

\* libconstruct.py: `if not tree[deps]`
ready(fd) == fd = {}

\* graph.py, `for deps in inverse[node]`: the dependents of a completed node.
RECURSIVE graph_notify(_, _, _, _)
graph_notify(st, inv, node, dependents) ==
    IF dependents = {} THEN st
    ELSE LET deps == CHOOSE y \in dependents : TRUE
             fd == Get(st.tree, deps) \ {node}
             st1 == IF deps \in DOMAIN st.tree
                    THEN [st EXCEPT !.tree = Put(@, deps, fd)]
                    ELSE st
             st2 == IF graph_ready(fd)
                    THEN [st1 EXCEPT !.new = @ \cup {deps}, !.working = @ \cup {deps}]
                    ELSE st1
         IN  graph_notify(st2, inv, node, dependents \ {deps})

\* libconstruct.py, `for deps in inverse[factor]`; tree[deps] raises KeyError
\* once deps has been emitted and deleted from tree.
RECURSIVE notify(_, _, _, _)
notify(st, inv, factor, dependents) ==
    IF dependents = {} \/ st.err THEN st
    ELSE LET deps == CHOOSE y \in dependents : TRUE
         IN  IF deps \notin DOMAIN st.tree THEN [st EXCEPT !.err = TRUE]
             ELSE LET fd == st.tree[deps] \ {factor}
                      st1 == IF ready(fd)
                             THEN [st EXCEPT !.new = @ \cup {deps},
                                             !.working = @ \cup {deps},
                                             !.tree = Del(@, deps)]
                             ELSE [st EXCEPT !.tree = Put(@, deps, fd)]
                  IN  notify(st1, inv, factor, dependents \ {deps})

\* `for node in (completion or ())`, in the order the collection iterates.
RECURSIVE complete(_, _, _, _)
complete(which, st, inv, completion) ==
    IF completion = <<>> \/ st.err THEN st
    ELSE LET node == Head(completion)
             st1 == [st EXCEPT !.working = @ \ {node}]
             st2 == IF which = "graph"
                    THEN graph_notify(st1, inv, node, Get(inv, node))
                    ELSE notify(st1, inv, node, Get(inv, node))
         IN  complete(which, st2, inv, Tail(completion))

\* The third element of the yielded tuple:
\* {x: tuple(inverse[x]) for x in new if inverse[x]}
dependents_of(inv, batch) ==
    [x \in {y \in batch : Get(inv, y) # {}} |-> Get(inv, x)]

\* Modules of a batch.
BatchModules(batch) == {module(x) : x \in batch}

AllNodes == DOMAIN tree \cup DOMAIN inverse \cup working \cup emitted

\* The collections a caller can send.
Completions == {T \in SUBSET AllNodes : Cardinality(T) <= MaxCompletion}

\* The orders in which the generator can iterate a completion.  The order
\* decides the outcome only in libconstruct.sequence and only when a node of
\* the collection was completed before (tree[deps] may or may not raise
\* KeyError before the remaining nodes are processed); in every other case
\* the loop body commutes and one order stands for all.
IterationOrders(S) ==
    IF impl = "libconstruct" /\ S \cap completed # {}
    THEN Orders(S)
    ELSE {CHOOSE o \in Orders(S) : TRUE}

----------------------------------------------------------------------------
\* Actions of the caller of a sequence generator.

SeqInit ==
    /\ impl \in {"graph", "libconstruct"}
    /\ dg \in Graphs
    /\ targets \in SUBSET Modules
    /\ gpc = "created"
    /\ tree = EmptyMap
    /\ inverse = EmptyMap
    /\ working = {}
    /\ new = {}
    /\ received = {}
    /\ completed = {}
    /\ emitted = {}
    /\ emitc = [m \in Modules |-> 0]
    /\ disciplined = TRUE
    /\ UpdIdle
    /\ FiltIdle
    /\ CollIdle
    /\ ConsIdle
    /\ MergeIdle
    /\ QueueIdle

\* next(generator): runs the body up to `yield None`.  Factor instances are
\* never found in tree again, so a cycle of imports recurses until
\* RecursionError.
GenNext ==
    /\ gpc = "created"
    /\ IF impl = "libconstruct" /\ Cyclic(dg, targets)
       THEN /\ gpc' = "raised"
            /\ UNCHANGED <<tree, inverse, working, new>>
       ELSE LET st == traverse_all(impl, dg, TraverseState, targets)
            IN  /\ tree' = st.tree
                /\ inverse' = st.inverse
                /\ working' = st.working
                /\ new' = st.working
                /\ gpc' = "primed"
    /\ UNCHANGED <<impl, dg, targets, received, completed, emitted, emitc, disciplined>>
    /\ UNCHANGED <<updVars, filtVars, collVars, consVars>>
    /\ UNCHANGED <<mergeVars, queueVars>>

\* The loop test and the yield of a batch.
YieldOrStop(w, n) ==
    IF w # {}
    THEN /\ gpc' = "yielded"
         /\ emitted' = emitted \cup n
         /\ emitc' = [m \in Modules |->
                        IF m \in BatchModules(n) THEN emitc[m] + 1 ELSE emitc[m]]
    ELSE /\ gpc' = "stopped"
         /\ UNCHANGED <<emitted, emitc>>

\* generator.send(completion) at `yield None`: the value sent is dropped.
GenFirstSend(completion) ==
    /\ gpc = "primed"
    /\ YieldOrStop(working, new)
    /\ disciplined' = (disciplined /\ completion = {})
    /\ UNCHANGED <<impl, dg, targets, tree, inverse, working, new, received, completed>>
    /\ UNCHANGED <<updVars, filtVars, collVars, consVars>>
    /\ UNCHANGED <<mergeVars, queueVars>>

\* generator.send(completion) at the yield of a batch.
GenSend(completion) ==
    /\ gpc = "yielded"
    /\ \A m \in Modules : emitc[m] < MaxEmit
    /\ LET st0 == [working |-> working, tree |-> tree, new |-> {}, err |-> FALSE]
       IN  \E order \in IterationOrders(completion) :
           LET st == complete(impl, st0, inverse, order) IN
           /\ received' = completion
           /\ disciplined' = (disciplined /\ completion \subseteq (emitted \ completed))
           /\ IF st.err
              THEN /\ gpc' = "raised"
                   /\ UNCHANGED <<tree, working, new, completed, emitted, emitc>>
              ELSE /\ tree' = st.tree
                   /\ working' = st.working
                   /\ new' = st.new
                   /\ completed' = completed \cup completion
                   /\ YieldOrStop(st.working, st.new)
    /\ UNCHANGED <<impl, dg, targets, inverse>>
    /\ UNCHANGED <<updVars, filtVars, collVars, consVars>>
    /\ UNCHANGED <<mergeVars, queueVars>>

SeqNext ==
    \/ GenNext
    \/ \E c \in Completions : GenFirstSend(c)
    \/ \E c \in Completions : GenSend(c)

SpecSeq == SeqInit /\ [][SeqNext]_vars

----------------------------------------------------------------------------
\* updated(outputs, inputs, requirement) and rebuild(outputs, inputs).
\* A file is [exists, lm]: whether the route exists and its last_modified().
\* An optional time is <<>> (None) or <<t>>.

Times == 0..MaxTime

Files == {[exists |-> FALSE, lm |-> 0]} \cup [exists : {TRUE}, lm : Times]

RECURSIVE FileSeqs(_)
FileSeqs(n) ==
    IF n = 0 THEN {<<>>}
    ELSE LET shorter == FileSeqs(n - 1)
         IN  shorter \cup {Append(q, f) : q \in {r \in shorter : Len(r) = n - 1}, f \in Files}

Min(x, y) == IF x <= y THEN x ELSE y

\* rebuild: unconditionally report the outputs as outdated.
rebuild(outputs, inputs) == "False"

\* `olm or lm`: the right operand when the left is falsy, which None is and
\* which a time of zero is.
py_or(olm, lm) == IF olm # <<>> /\ olm[1] # 0 THEN olm[1] ELSE lm

\* The loop over outputs: stops at the first output that does not exist.
RECURSIVE updated_outputs(_, _)
updated_outputs(outputs, olm) ==
    IF outputs = <<>> THEN [missing |-> FALSE, olm |-> olm]
    ELSE LET output == Head(outputs)
         IN  IF ~output.exists THEN [missing |-> TRUE, olm |-> olm]
             ELSE updated_outputs(Tail(outputs), <<Min(output.lm, py_or(olm, output.lm))>>)

\* The loop over inputs; comparing a time with None raises TypeError.
RECURSIVE updated_inputs(_, _)
updated_inputs(inputs, olm) ==
    IF inputs = <<>> THEN "True"
    ELSE LET x == Head(inputs)
         IN  IF ~x.exists THEN "False"
             ELSE IF olm = <<>> THEN "TypeError"
             ELSE IF x.lm > olm[1] THEN "False"
             ELSE updated_inputs(Tail(inputs), olm)

updated(outputs, inputs, requirement) ==
    LET o == updated_outputs(outputs, <<>>)
    IN  IF o.missing THEN "False"
        ELSE IF requirement # <<>> /\ o.olm = <<>> THEN "TypeError"
        ELSE IF requirement # <<>> /\ o.olm[1] < requirement[1] THEN "False"
        ELSE updated_inputs(inputs, o.olm)

UpdInit ==
    /\ u_outputs \in FileSeqs(MaxFiles)
    /\ u_inputs \in FileSeqs(MaxFiles)
    /\ u_requirement \in {<<>>} \cup {<<t>> : t \in Times}
    /\ u_result = "pending"
    /\ SeqIdle
    /\ FiltIdle
    /\ CollIdle
    /\ ConsIdle
    /\ MergeIdle
    /\ QueueIdle

CallUpdated ==
    /\ u_result = "pending"
    /\ u_result' = updated(u_outputs, u_inputs, u_requirement)
    /\ UNCHANGED <<u_outputs, u_inputs, u_requirement>>
    /\ UNCHANGED <<seqVars, filtVars, collVars, consVars>>
    /\ UNCHANGED <<mergeVars, queueVars>>

UpdNext == CallUpdated

SpecUpdated == UpdInit /\ [][UpdNext]_vars

\* The modification time of the oldest of a non-empty sequence of existing files.
RECURSIVE Oldest(_)
Oldest(files) ==
    IF Len(files) = 1 THEN files[1].lm
    ELSE Min(files[1].lm, Oldest(Tail(files)))

UpToDate(outputs, inputs, requirement) ==
    /\ \A i \in DOMAIN outputs : outputs[i].exists
    /\ requirement # <<>> => Oldest(outputs) >= requirement[1]
    /\ \A i \in DOMAIN inputs :
          inputs[i].exists /\ inputs[i].lm <= Oldest(outputs)

\* C7: with at least one output, updated returns True exactly when every
\* output exists, the oldest output is not earlier than a given requirement,
\* and every input exists and is not newer than the oldest output; in every
\* other case it returns False.
C7_UpdatedIffUpToDate ==
    (u_result # "pending" /\ u_outputs # <<>>) =>
        u_result = IF UpToDate(u_outputs, u_inputs, u_requirement) THEN "True" ELSE "False"

----------------------------------------------------------------------------
\* The filter of Construction, transform and reduce.
\* An instruction is [op]; a source is [ext, dot, sub, file, obj]: its
\* extension, whether its name starts with '.', whether it lies in a
\* subdirectory of the source directory, the source file and the object
\* file libroutes.File(loc['output'], src.points).

Ins(op) == [op |-> op]

Commands == {"execute", "execute-redirection", "call"}

Sources == [ext : {"c", "h"}, dot : BOOLEAN, sub : BOOLEAN, file : Files, obj : Files]

RECURSIVE SourceSeqs(_)
SourceSeqs(n) ==
    IF n = 0 THEN {<<>>}
    ELSE LET shorter == SourceSeqs(n - 1)
         IN  shorter \cup {Append(q, x) : q \in {r \in shorter : Len(r) = n - 1}, x \in Sources}

\* The mechanism selected for the language of the sources: whether it names
\* a mechanism to inherit from, its method and whether it redirects.
LMechs ==
    {[inherit |-> TRUE, method |-> "other", redirect |-> FALSE]}
    \cup [inherit : {FALSE}, method : {"python", "other"}, redirect : BOOLEAN]
    \cup {[inherit |-> FALSE, method |-> "internal", redirect |-> FALSE]}

\* What transform reads of the mechanism and the context.
TransformContexts ==
    [hasSources : BOOLEAN,            \* 'sources' in context
     dynamics : {"library", "interfaces"},
     inspect : BOOLEAN,               \* variants['name'] == 'inspect'
     ignores : {{}, {"h"}},           \* mechanism.get('ignore-extensions', ())
     lmech : LMechs]

\* Construction.actuate: rebuild, or functools.partial(updated, requirement=...)
actuate_filter(reconstruct, requirement) ==
    IF reconstruct THEN [fn |-> "rebuild", requirement |-> <<>>]
    ELSE [fn |-> "updated", requirement |-> requirement]

\* filtered(outputs, inputs)
filtered(f, outputs, inputs) ==
    IF f.fn = "rebuild" THEN rebuild(outputs, inputs)
    ELSE updated(outputs, inputs, f.requirement)

\* transform up to the loop over the sources.
transform_begin(ctx) ==
    IF ~ctx.hasSources \/ ctx.dynamics = "interfaces"
    THEN [done |-> TRUE, ins |-> <<>>, emitted |-> {}]
    ELSE [done |-> FALSE,
          ins |-> <<Ins("directory"), Ins("directory")>>,
          emitted |-> {<<"output", FALSE>>, <<"logs", FALSE>>}]

\* variants['name'] != 'inspect' and fnx in ignores or src.identifier.startswith('.')
transform_ignored(ctx, src) ==
    (~ctx.inspect /\ src.ext \in ctx.ignores) \/ src.dot

\* for x in (obj, logfile): emit the container once
transform_directories(dirs, src) ==
    LET d1 == <<"output", src.sub>>
        d2 == <<"logs", src.sub>>
        i1 == IF d1 \in dirs THEN <<>> ELSE <<Ins("directory")>>
        e1 == dirs \cup {d1}
        i2 == IF d2 \in e1 THEN <<>> ELSE <<Ins("directory")>>
    IN  [ins |-> i1 \o i2, emitted |-> e1 \cup {d2}]

\* The instruction of the compilation, by method and redirect.
transform_command(lmech) ==
    IF lmech.method = "internal" THEN Ins("call")
    ELSE IF lmech.redirect THEN Ins("execute-redirection")
    ELSE Ins("execute")

\* One iteration of `for src in context['sources']`.  The layers of an
\* inheriting mechanism are collected by `while 'inherit' in lmech`, whose
\* condition the loop body never changes: it does not end.
transform_source(ctx, f, dirs, src) ==
    IF transform_ignored(ctx, src)
    THEN [hang |-> FALSE, ins |-> <<>>, emitted |-> dirs]
    ELSE IF ctx.lmech.inherit
    THEN [hang |-> TRUE, ins |-> <<>>, emitted |-> dirs]
    ELSE IF filtered(f, <<src.obj>>, <<src.file>>) = "True"
    THEN [hang |-> FALSE, ins |-> <<>>, emitted |-> dirs]
    ELSE LET d == transform_directories(dirs, src)
         IN  [hang |-> FALSE,
              ins |-> Append(d.ins, transform_command(ctx.lmech)),
              emitted |-> d.emitted]

RECURSIVE transform_sources(_, _, _, _)
transform_sources(ctx, f, st, sources) ==
    IF sources = <<>> \/ st.hang THEN st
    ELSE LET r == transform_source(ctx, f, st.emitted, Head(sources))
         IN  transform_sources(ctx, f,
                 [hang |-> r.hang, ins |-> st.ins \o r.ins, emitted |-> r.emitted],
                 Tail(sources))

\* list(transform(mech, fmt, filtered=f)): [hang, ins]
transform(ctx, f, sources) ==
    LET b == transform_begin(ctx)
    IN  IF b.done THEN [hang |-> FALSE, ins |-> <<>>, emitted |-> {}]
        ELSE transform_sources(ctx, f,
                 [hang |-> FALSE, ins |-> b.ins, emitted |-> b.emitted], sources)

\* Construction.collect: the filter handed to reduce.
\* Mutant of collect_filter: the configured filter whatever was transformed.
collect_filter_configured(xf, f) == f

collect_filter(xf, f) ==
    IF \E i \in DOMAIN xf : xf[i].op \notin {"directory", "link"}
    THEN [fn |-> "rebuild", requirement |-> <<>>]
    ELSE f

\* What reduce reads of the mechanism and the context besides the sources.
ReduceContexts ==
    [format : BOOLEAN,                \* context['variants'].get('format') is not None
     reductions : BOOLEAN,            \* 'reductions' in mechanism
     libraries : {0, 1},              \* number of ('system', 'library') references
     fragments : {<<>>} \cup {<<x>> : x \in Files}, \* ('system', 'fragment'), x / fmt
     rr : Files,                      \* the reduction, ftr / (identifier + suffix)
     redirect : BOOLEAN]              \* mif.get('redirect')

\* The objects reduce selects from the sources.
RECURSIVE reduce_objects(_)
reduce_objects(sources) ==
    IF sources = <<>> THEN <<>>
    ELSE LET x == Head(sources)
         IN  (IF x.ext \notin {"h"} /\ ~x.dot THEN <<x.obj>> ELSE <<>>)
             \o reduce_objects(Tail(sources))

RECURSIVE Repeat(_, _)
Repeat(x, n) == IF n = 0 THEN <<>> ELSE <<x>> \o Repeat(x, n - 1)

\* list(reduce(mech, fmt, filtered=f))
reduce(hasSources, rc, f, sources) ==
    IF ~rc.format \/ ~rc.reductions \/ ~hasSources THEN <<>>
    ELSE LET objects == reduce_objects(sources) \o rc.fragments
         IN  <<Ins("directory"), Ins("link"), Ins("directory")>>
             \o Repeat(Ins("link"), rc.libraries)
             \o (IF filtered(f, <<rc.rr>>, objects) # "True"
                 THEN <<Ins(IF rc.redirect THEN "execute-redirection" ELSE "execute")>>
                 ELSE <<>>)

\* The instruction lists collect can hold as the result of transform.
XfLists ==
    LET ops == {Ins("directory"), Ins("link"), Ins("execute"), Ins("call")}
    IN  {<<>>} \cup {<<x>> : x \in ops} \cup {<<x, y>> : x \in ops, y \in ops}

\* The sources as reduce reads them: extension, name and object file.
ReduceSources ==
    [ext : {"c", "h"}, dot : BOOLEAN, sub : {FALSE},
     file : {[exists |-> TRUE, lm |-> 0]}, obj : Files]

\* A Construction is created, and either transform is called for a factor
\* (f_call = "transform") or collect goes on from a transform instruction
\* list to reduce (f_call = "reduce").
CollInit ==
    /\ k_reconstruct \in BOOLEAN
    /\ k_requirement \in {<<>>} \cup {<<t>> : t \in Times}
    /\ k_filter = <<>>
    /\ f_call \in {"transform", "reduce"}
    /\ IF f_call = "transform"
       THEN /\ f_ctx \in TransformContexts
            /\ f_xf = <<>>
       ELSE /\ f_ctx \in {c \in TransformContexts :
                            /\ c.dynamics = "library" /\ ~c.inspect /\ c.ignores = {}
                            /\ c.lmech = [inherit |-> FALSE, method |-> "other",
                                          redirect |-> FALSE]}
            /\ f_xf \in XfLists
    /\ f_pc = "init"
    /\ f_emitted = {}
    /\ f_n = 0
    /\ f_last = <<>>
    /\ f_ins = <<>>
    /\ f_red = <<>>
    /\ f_rd = <<>>
    /\ SeqIdle
    /\ UpdIdle
    /\ ConsIdle
    /\ MergeIdle
    /\ QueueIdle

\* Construction.actuate, the selection of the filter.
Actuate ==
    /\ f_pc = "init"
    /\ k_filter' = <<actuate_filter(k_reconstruct, k_requirement)>>
    /\ f_pc' = IF f_call = "transform" THEN "transform" ELSE "transformed"
    /\ UNCHANGED <<k_reconstruct, k_requirement, f_call, f_ctx, f_emitted, f_n,
                   f_last, f_ins, f_xf, f_red, f_rd>>
    /\ UNCHANGED <<seqVars, updVars, consVars>>
    /\ UNCHANGED <<mergeVars, queueVars>>

TransformBegin ==
    /\ f_pc = "transform"
    /\ LET b == transform_begin(f_ctx)
       IN  /\ f_xf' = b.ins
           /\ f_emitted' = b.emitted
           /\ f_pc' = IF b.done THEN "returned" ELSE "sources"
    /\ UNCHANGED <<f_call, f_ctx, f_n, f_last, f_ins, f_red, f_rd>>
    /\ UNCHANGED <<seqVars, updVars, filtVars, consVars>>
    /\ UNCHANGED <<mergeVars, queueVars>>

\* The next source of context['sources'].  f_last records whether the source
\* is one the mechanism ignores and whether its object is up to date.
TransformSource(src) ==
    /\ f_pc = "sources"
    /\ f_n < MaxSources
    /\ LET r == transform_source(f_ctx, k_filter[1], f_emitted, src)
       IN  /\ f_pc' = IF r.hang THEN "hang" ELSE "sources"
           /\ f_ins' = r.ins
           /\ f_xf' = f_xf \o r.ins
           /\ f_emitted' = r.emitted
    /\ f_last' = <<[ignored |-> transform_ignored(f_ctx, src),
                   uptodate |-> updated(<<src.obj>>, <<src.file>>, k_requirement) = "True"]>>
    /\ f_n' = f_n + 1
    /\ UNCHANGED <<f_call, f_ctx, f_red, f_rd>>
    /\ UNCHANGED <<seqVars, updVars, filtVars, consVars>>
    /\ UNCHANGED <<mergeVars, queueVars>>

\* context['sources'] is exhausted.
TransformEnd ==
    /\ f_pc = "sources"
    /\ f_pc' = "returned"
    /\ UNCHANGED <<f_call, f_ctx, f_emitted, f_n, f_last, f_ins, f_xf, f_red, f_rd>>
    /\ UNCHANGED <<seqVars, updVars, filtVars, consVars>>
    /\ UNCHANGED <<mergeVars, queueVars>>

\* Construction.collect after transform: reduce with the filter chosen from
\* the transform instruction list.  f_red records the filter handed over,
\* whether there is a reduction to make, and whether it is up to date.
Reduce(rc, sources) ==
    /\ f_pc = "transformed"
    /\ LET f == collect_filter(f_xf, k_filter[1])
           objects == reduce_objects(sources) \o rc.fragments
       IN  /\ f_rd' = reduce(f_ctx.hasSources, rc, f, sources)
           /\ f_red' = <<[fn |-> f.fn,
                         reducible |-> rc.format /\ rc.reductions /\ f_ctx.hasSources,
                         uptodate |-> updated(<<rc.rr>>, objects, k_requirement) = "True",
                         current |-> UpToDate(<<rc.rr>>, objects, k_requirement)]>>
    /\ f_pc' = "done"
    /\ UNCHANGED <<f_call, f_ctx, f_emitted, f_n, f_last, f_ins, f_xf>>
    /\ UNCHANGED <<seqVars, updVars, filtVars, consVars>>
    /\ UNCHANGED <<mergeVars, queueVars>>

CollNext ==
    \/ Actuate
    \/ TransformBegin
    \/ \E src \in Sources : TransformSource(src)
    \/ TransformEnd
    \/ \E rc \in ReduceContexts :
       \E sources \in {<<>>} \cup {<<x>> : x \in ReduceSources} : Reduce(rc, sources)

SpecCollect == CollInit /\ [][CollNext]_vars

\* C8: with reconstruct=True the filter is rebuild; transform then emits a
\* command (execute, execute-redirection or call) for every source that is
\* not ignored, and reduce emits its reduction command whenever there is a
\* reduction to make, whatever the files are; with reconstruct=False a source
\* that is not ignored is skipped exactly when
\* updated((object,), (source,), requirement) is True.
C8_ReconstructEmitsCommands ==
    /\ (k_filter # <<>> /\ k_reconstruct) => k_filter[1].fn = "rebuild"
    /\ (f_call = "transform" /\ f_last # <<>> /\ ~f_last[1].ignored) =>
           IF k_reconstruct
           THEN f_ins # <<>> /\ Last(f_ins).op \in Commands
           ELSE (f_ins = <<>>) <=> f_last[1].uptodate
    /\ (f_red # <<>> /\ k_reconstruct /\ f_red[1].reducible) =>
           f_rd # <<>> /\ Last(f_rd).op \in Commands

\* The transform list holds a command or a call.
Transformed(xf) == \E i \in DOMAIN xf : xf[i].op \notin {"directory", "link"}

\* The reduce list ends with the reduction command.
ReductionEmitted(rd) == rd # <<>> /\ Last(rd).op \in {"execute", "execute-redirection"}

\* C15: when the transform list of a factor holds an instruction other than
\* directory and link, reduce is evaluated with rebuild and the reduction
\* command is emitted whatever the timestamps are; when it holds none, reduce
\* is evaluated with the configured filter, and with the filter updated the
\* command is emitted exactly when the reduction is not up to date.
C15_ReducedAfterTransform ==
    (f_red # <<>> /\ f_red[1].reducible) =>
        IF Transformed(f_xf)
        THEN f_red[1].fn = "rebuild" /\ ReductionEmitted(f_rd)
        ELSE /\ f_red[1].fn = k_filter[1].fn
             /\ k_filter[1].fn = "updated" => (ReductionEmitted(f_rd) <=> ~f_red[1].current)
             /\ k_filter[1].fn = "rebuild" => ReductionEmitted(f_rd)

\* A reduction that is up to date by the configured filter is reduced again
\* because a source of the factor was transformed.
C15_Witness ==
    /\ f_red # <<>>
    /\ f_red[1].reducible
    /\ f_red[1].current
    /\ ~k_reconstruct
    /\ Transformed(f_xf)
    /\ ReductionEmitted(f_rd)

----------------------------------------------------------------------------
\* merge(parameters, source, operations = merge_operations).
\* A Python value is a record of its class and the parts a class uses: n of
\* an int, s of a str, items of a tuple or list, elems of a set, map of a
\* dict (key -> value).

Py(cls, n, str, items, elems, map) ==
    [cls |-> cls, n |-> n, s |-> str, items |-> items, elems |-> elems, map |-> map]

PyNone == Py("NoneType", 0, "", <<>>, {}, EmptyMap)

PyNotImplemented == Py("NotImplementedType", 0, "", <<>>, {}, EmptyMap)

PyInt(n) == Py("int", n, "", <<>>, {}, EmptyMap)

PyStr(str) == Py("str", 0, str, <<>>, {}, EmptyMap)

PyTuple(items) == Py("tuple", 0, "", items, {}, EmptyMap)

PyList(items) == Py("list", 0, "", items, {}, EmptyMap)

PySet(elems) == Py("set", 0, "", <<>>, elems, EmptyMap)

PyDict(map) == Py("dict", 0, "", <<>>, {}, map)

\* iter(y) of a set, a list or a tuple
ItemsOf(y) == IF y.cls = "set" THEN SetToSeq(y.elems) ELSE y.items

\* merge_operations[cls](x, y) for the classes other than dict:
\* [raised, r, x], the exception raised if any, the value returned and the
\* object x after the call.  The dict literal names tuple twice; the later
\* entry is the one it holds.
merge_operation(x, y) ==
    LET iterable == y.cls \in {"set", "list", "tuple"}
    IN  IF x.cls = "set"
        THEN IF iterable
             THEN [raised |-> "", r |-> PyNone, x |-> PySet(x.elems \cup Range(ItemsOf(y)))]
             ELSE [raised |-> "TypeError", r |-> PyNone, x |-> x]
        ELSE IF x.cls = "list"
        THEN IF iterable
             THEN [raised |-> "", r |-> PyNone, x |-> PyList(x.items \o ItemsOf(y))]
             ELSE [raised |-> "TypeError", r |-> PyNone, x |-> x]
        ELSE IF x.cls = "int"
        THEN [raised |-> "",
              r |-> IF y.cls = "int" THEN PyInt(x.n + y.n) ELSE PyNotImplemented,
              x |-> x]
        ELSE IF x.cls \in {"str", "tuple", "NoneType"}
        THEN [raised |-> "", r |-> y, x |-> x]
        ELSE [raised |-> "KeyError", r |-> PyNone, x |-> x]

\* merge: [raised, map], the dict parameters after `for key in source` over
\* the keys given.
RECURSIVE merge_keys(_, _, _)
merge_keys(st, source, keys) ==
    IF keys = <<>> \/ st.raised # "" THEN st
    ELSE LET key == Head(keys)
             y == source[key]
         IN  IF key \in DOMAIN st.map
             THEN LET x == st.map[key]
                      o == IF x.cls = "dict"
                           THEN IF y.cls = "dict"
                                THEN LET d == merge_keys([raised |-> "", map |-> x.map], y.map,
                                                         SetToSeq(DOMAIN y.map))
                                     IN  [raised |-> d.raised, r |-> PyNone, x |-> PyDict(d.map)]
                                ELSE [raised |-> "TypeError", r |-> PyNone, x |-> x]
                           ELSE merge_operation(x, y)
                      \* if r is not None and r is not parameters[key]
                      v == IF o.r # PyNone THEN o.r ELSE o.x
                  IN  merge_keys([raised |-> o.raised, map |-> Put(st.map, key, v)],
                                 source, Tail(keys))
             ELSE merge_keys([raised |-> "", map |-> Put(st.map, key, y)], source, Tail(keys))

merge(parameters, source) ==
    merge_keys([raised |-> "", map |-> parameters], source, SetToSeq(DOMAIN source))

\* ---- the values merged

Items == 1..MaxItem

ItemSeqs == {<<>>} \cup {<<i>> : i \in Items} \cup {<<i, j>> : i \in Items, j \in Items}

PyLeaves ==
    {PyNone}
    \cup {PyInt(n) : n \in 0..MaxInt}
    \cup {PyStr(str) : str \in {"s", "t"}}
    \cup {PyTuple(q) : q \in ItemSeqs}
    \cup {PyList(q) : q \in ItemSeqs}
    \cup {PySet(e) : e \in SUBSET Items}

PyValues ==
    PyLeaves \cup {PyDict([k \in D |-> v]) : D \in SUBSET {"k"}, v \in PyLeaves}

\* The source values drawn for an existing value: of its class, None, any
\* value where the existing one is a str, a tuple or None, and a set, list
\* or tuple for a set or a list.
RECURSIVE Fits(_, _)
Fits(x, y) ==
    \/ x.cls \in {"str", "tuple", "NoneType"}
    \/ y.cls = "NoneType"
    \/ x.cls \in {"set", "list"} /\ y.cls \in {"set", "list", "tuple"}
    \/ x.cls = "int" /\ y.cls = "int"
    \/ /\ x.cls = "dict"
       /\ y.cls = "dict"
       /\ \A k \in DOMAIN x.map \cap DOMAIN y.map : Fits(x.map[k], y.map[k])

\* The dicts drawn: key "k" may be in both, "p" and "q" in one of them only.
MergeDicts(own) ==
    {[k \in D |-> IF k = "k" THEN v ELSE PyInt(1)] : D \in SUBSET {"k", own}, v \in PyValues}

MergeInit ==
    /\ m_parameters \in MergeDicts("p")
    /\ m_source \in MergeDicts("q")
    /\ \A k \in DOMAIN m_parameters \cap DOMAIN m_source : Fits(m_parameters[k], m_source[k])
    /\ m_before = m_parameters
    /\ m_result = "pending"
    /\ SeqIdle
    /\ UpdIdle
    /\ FiltIdle
    /\ CollIdle
    /\ ConsIdle
    /\ QueueIdle

CallMerge ==
    /\ m_result = "pending"
    /\ LET o == merge(m_parameters, m_source)
       IN  /\ m_parameters' = o.map
           /\ m_result' = IF o.raised = "" THEN "returned" ELSE o.raised
    /\ UNCHANGED <<m_source, m_before>>
    /\ UNCHANGED <<seqVars, updVars, filtVars, collVars, consVars, queueVars>>

MergeNext == CallMerge

SpecMerge == MergeInit /\ [][MergeNext]_vars

\* What a key present in both dicts is to hold: by the class of the value
\* that was there.  An int and a value that is no int have no sum; what the
\* key holds then is left open.
RECURSIVE MergedAs(_, _, _), CombinedAs(_, _, _)
MergedAs(after, before, source) ==
    /\ DOMAIN after = DOMAIN before \cup DOMAIN source
    /\ \A k \in DOMAIN after :
           IF k \notin DOMAIN source THEN after[k] = before[k]
           ELSE IF k \notin DOMAIN before THEN after[k] = source[k]
           ELSE CombinedAs(after[k], before[k], source[k])

CombinedAs(v, x, y) ==
    IF x.cls = "dict" THEN v.cls = "dict" /\ MergedAs(v.map, x.map, y.map)
    ELSE IF x.cls = "set" THEN v = PySet(x.elems \cup Range(ItemsOf(y)))
    ELSE IF x.cls = "list" THEN v = PyList(x.items \o ItemsOf(y))
    ELSE IF x.cls = "int" THEN y.cls = "int" => v = PyInt(x.n + y.n)
    ELSE v = y

\* C11: merge leaves the keys absent from source as they were, assigns the
\* source value to the keys absent from parameters, and combines the others
\* by the class of the existing value: dict by recursive merge, set by union,
\* list by appending, int by addition, str, tuple and None by replacement
\* with the source value.
C11_MergedByClass ==
    m_result = "returned" => MergedAs(m_parameters, m_before, m_source)


----------------------------------------------------------------------------
\* workspaces.process.SQueue: the queue construct() builds from a project
\* vector.

MaxQueue == 3

\* The sequences a queue is built from.
RECURSIVE SeqsUpTo(_)
SeqsUpTo(n) ==
    IF n = 0 THEN {<<>>}
    ELSE LET shorter == SeqsUpTo(n - 1)
         IN  shorter \cup {Append(q, i) : q \in {x \in shorter : Len(x) = n - 1}, i \in Items}

\* The stop index of the slice [:i] of a list of n items.
slice_stop(n, i) ==
    IF i < 0 THEN (IF n + i < 0 THEN 0 ELSE n + i)
    ELSE IF i > n THEN n ELSE i

\* take without the del statement.
take_kept(items, i) ==
    LET k == slice_stop(Len(items), i)
    IN  [r |-> SubSeq(items, 1, k), items |-> items]

\* take(i): the slice [:i] is returned and deleted from items.
take(items, i) ==
    LET k == slice_stop(Len(items), i)
    IN  [r |-> SubSeq(items, 1, k), items |-> SubSeq(items, k + 1, Len(items))]

\* terminal(): not self.items.
terminal == q_items = <<>>

\* status(): (self.count - len(self.items), self.count).
status == <<q_count - Len(q_items), q_count>>

\* A call and what it returned: the list of take, the truth value of
\* terminal, the pair of status.
Call(op, items, flag, pair) == [op |-> op, items |-> items, flag |-> flag, pair |-> pair]

\* The arguments of take.
TakeCounts == (0 - 1)..MaxQueue

\* __init__: items is a list copy of the sequence and count its length.
QueueInit ==
    /\ q_sequence \in SeqsUpTo(MaxQueue)
    /\ q_items = q_sequence
    /\ q_count = Len(q_sequence)
    /\ q_taken = <<>>
    /\ q_last = <<>>
    /\ SeqIdle
    /\ UpdIdle
    /\ FiltIdle
    /\ CollIdle
    /\ ConsIdle
    /\ MergeIdle

Take(i) ==
    /\ LET o == take(q_items, i)
       IN  /\ q_items' = o.items
           /\ q_taken' = q_taken \o o.r
           /\ q_last' = <<Call("take", o.r, FALSE, <<>>)>>
    /\ UNCHANGED <<q_sequence, q_count>>
    /\ UNCHANGED <<seqVars, updVars, filtVars, collVars, consVars, mergeVars>>

Finish(items) ==
    /\ q_last' = <<Call("finish", items, FALSE, <<>>)>>
    /\ UNCHANGED <<q_sequence, q_items, q_count, q_taken>>
    /\ UNCHANGED <<seqVars, updVars, filtVars, collVars, consVars, mergeVars>>

Terminal ==
    /\ q_last' = <<Call("terminal", <<>>, terminal, <<>>)>>
    /\ UNCHANGED <<q_sequence, q_items, q_count, q_taken>>
    /\ UNCHANGED <<seqVars, updVars, filtVars, collVars, consVars, mergeVars>>

Status ==
    /\ q_last' = <<Call("status", <<>>, FALSE, status)>>
    /\ UNCHANGED <<q_sequence, q_items, q_count, q_taken>>
    /\ UNCHANGED <<seqVars, updVars, filtVars, collVars, consVars, mergeVars>>

QueueNext ==
    \/ \E i \in TakeCounts : Take(i)
    \/ \E items \in {<<>>, q_taken} : Finish(items)
    \/ Terminal
    \/ Status

SpecQueue == QueueInit /\ [][QueueNext]_vars

\* p is a prefix of q.
IsPrefix(p, q) == Len(p) <= Len(q) /\ SubSeq(q, 1, Len(p)) = p

\* C12: the concatenation of all take results is a prefix of the sequence the
\* queue was built from, status() is (items taken so far, length of the
\* sequence), terminal() is true exactly when every item was taken, and a
\* finish call changes neither the items nor the count.
C12_TakenIsPrefix ==
    /\ [](/\ IsPrefix(q_taken, q_sequence)
          /\ status = <<Len(q_taken), Len(q_sequence)>>
          /\ terminal <=> (q_taken = q_sequence)
          /\ \A c \in Range(q_last) :
                 /\ c.op = "status" => c.pair = <<Len(q_taken), Len(q_sequence)>>
                 /\ c.op = "terminal" => (c.flag <=> (q_taken = q_sequence)))
    /\ [][(\E items \in {<<>>, q_taken} : Finish(items))
              => UNCHANGED <<q_items, q_count, q_taken>>]_vars

\* Part of the sequence was taken in more than one call, the rest was not,
\* and the queue was asked for its status.
C12_Witness ==
    /\ Len(q_taken) >= 2
    /\ q_taken # q_sequence
    /\ Len(q_items) < Len(q_sequence) - 1
    /\ \E c \in Range(q_last) : c.op = "status"

----------------------------------------------------------------------------
\* Claims about the sequence generators.

\* The direct dependencies of a node, as the generator read them.
DirectDeps(node) ==
    IF impl = "graph" THEN directory(dg, node) ELSE collect(dg, node)

\* C1: every node that was part of a yielded batch has had each of its direct
\* dependencies processed as a completion before, for every graph and every
\* order and content of the completions sent.
C1_DependenciesFirst ==
    \A n \in emitted : DirectDeps(n) \subseteq completed

\* C1 witness: a factor with two dependencies is in the current batch after
\* the caller sent completions.
C1_Witness ==
    /\ impl = "libconstruct"
    /\ gpc = "yielded"
    /\ \E n \in new : Cardinality(DirectDeps(n)) = 2

\* The nodes a generator holds.
NodesOf(t, inv, w, e) == DOMAIN t \cup DOMAIN inv \cup w \cup e

\* The nodes that depend directly on a node.
DirectDependents(nodes, node) == {n \in nodes : node \in DirectDeps(n)}

\* The traversed nodes that have no dependencies.
Independent(nodes) == {n \in nodes : DirectDeps(n) = {}}

\* The nodes whose last uncompleted dependency is in the completion, given
\* the nodes completed before it.
Released(nodes, before, completion) ==
    {n \in nodes : /\ DirectDeps(n) # {}
                   /\ DirectDeps(n) \subseteq before \cup completion
                   /\ ~(DirectDeps(n) \subseteq before)}

\* The mapping a batch is to be reported with.
BatchDependents(nodes, batch) ==
    [x \in {y \in batch : DirectDependents(nodes, y) # {}} |-> DirectDependents(nodes, x)]

\* C13: the batch yielded to the first send is exactly the set of traversed
\* nodes that have no dependencies; every later batch is exactly the set of
\* nodes whose last uncompleted dependency was among the completions just
\* sent, and each batch is reported with the mapping from each of its nodes
\* that has dependents to exactly its direct dependents.
C13_BatchContents ==
    [][LET nodes == NodesOf(tree', inverse', working', emitted')
       IN  /\ (gpc = "primed" /\ gpc' = "yielded")
               => /\ new' = Independent(nodes)
                  /\ dependents_of(inverse', new') = BatchDependents(nodes, new')
           /\ (gpc = "yielded" /\ gpc' = "yielded" /\ vars' # vars)
               => /\ new' = Released(nodes, completed, received')
                  /\ dependents_of(inverse', new') = BatchDependents(nodes, new')]_vars

\* C2: libconstruct.sequence puts a factor module in at most one batch of a
\* run when the caller sends every emitted factor as completed once.
C2_OneBatchPerModule ==
    (impl = "libconstruct" /\ disciplined) => \A m \in Modules : emitc[m] <= 1

\* The caller that sends emitted nodes only, each once.
SendEmitted ==
    \E c \in Completions :
        /\ c # {}
        /\ c \subseteq emitted \ completed
        /\ GenSend(c)

SeqLiveInit == SeqInit /\ ~Cyclic(dg, targets)

SeqLiveNext ==
    \/ GenNext
    \/ GenFirstSend({})
    \/ SendEmitted

\* An acyclic graph and a caller that keeps calling: next(), the first send,
\* and a completion for emitted nodes while one is uncompleted.
SpecSeqLive ==
    /\ SeqLiveInit
    /\ [][SeqLiveNext]_vars
    /\ WF_vars(GenNext)
    /\ WF_vars(GenFirstSend({}))
    /\ WF_vars(SendEmitted)

\* C3: for an acyclic graph and a caller that eventually completes every
\* emitted node, every module reachable from the initial nodes is eventually
\* emitted and the generator stops; it has stopped exactly when, after a send,
\* no emitted node is left uncompleted.
C3_SequencedToTheEnd ==
    /\ <>(gpc = "stopped" /\ BatchModules(emitted) = Reach(dg, targets))
    /\ [](gpc = "stopped" => emitted \subseteq completed)
    /\ [](gpc = "yielded" => ~(emitted \subseteq completed))

\* C3 witness: a chain of three modules has been sequenced to the end.
C3_Witness ==
    /\ gpc = "stopped"
    /\ ~Cyclic(dg, targets)
    /\ \E n \in emitted : Len(n) = 1 /\ \E d \in DirectDeps(n) : DirectDeps(d) # {}
    /\ emitted \subseteq completed

----------------------------------------------------------------------------
\* Construction: the work of the factors that libconstruct.sequence emits is
\* collected, dispatched and counted.  The state of the Construction and of
\* its sequence generator is handed through the methods as a record K; a
\* method that raises sets K.halted and the callers return at once.

GetN(d, k) == IF k \in DOMAIN d THEN d[k] ELSE 0

GetL(d, k) == IF k \in DOMAIN d THEN d[k] ELSE <<>>

RECURSIVE Total(_)
Total(d) ==
    IF DOMAIN d = {} THEN 0
    ELSE LET k == CHOOSE x \in DOMAIN d : TRUE IN d[k] + Total(Del(d, k))

\* ---- the factors

FactorKinds == {"probe", "library", "built", "interfaces", "internal", "inherit"}

\* A source whose object is missing, and one whose object is newer.
StaleSource ==
    [ext |-> "c", dot |-> FALSE, sub |-> FALSE,
     file |-> [exists |-> TRUE, lm |-> 1], obj |-> [exists |-> FALSE, lm |-> 0]]

BuiltSource ==
    [ext |-> "c", dot |-> FALSE, sub |-> FALSE,
     file |-> [exists |-> TRUE, lm |-> 1], obj |-> [exists |-> TRUE, lm |-> MaxTime]]

\* What initialize() provides for a factor of a kind: the context transform
\* reads, context['sources'], and what reduce reads.
FactorWork(kind) ==
    LET lmech == [inherit |-> kind = "inherit",
                  method |-> IF kind = "internal" THEN "internal" ELSE "other",
                  redirect |-> FALSE]
        ctx == [hasSources |-> TRUE,
                dynamics |-> IF kind = "interfaces" THEN "interfaces" ELSE "library",
                inspect |-> FALSE, ignores |-> {"h"}, lmech |-> lmech]
        rc == [format |-> TRUE, reductions |-> TRUE, libraries |-> 0, fragments |-> <<>>,
               rr |-> IF kind = "built" THEN [exists |-> TRUE, lm |-> MaxTime]
                      ELSE [exists |-> FALSE, lm |-> 0],
               redirect |-> FALSE]
    IN  [ctx |-> ctx,
         sources |-> IF kind = "built" THEN <<BuiltSource>> ELSE <<StaleSource, BuiltSource>>,
         rc |-> rc]

\* ---- the probe cache

\* module.key(factor, contexts, dep), or None
probe_key(factor, dep) == IF keyed THEN module(dep) ELSE "None"

\* probe_retrieve: the file is opened outside of the try statement.
probe_retrieve(file) ==
    IF file.state = "absent" THEN [raised |-> TRUE, reports |-> EmptyMap]
    ELSE IF file.state = "empty" THEN [raised |-> FALSE, reports |-> EmptyMap]
    ELSE [raised |-> FALSE, reports |-> file.reports]

\* probe_record
probe_record(reports) == [state |-> "reports", reports |-> reports]

\* Mutant of probe_exit_reports: only the new report is kept.
probe_exit_reports_only(reports, key, report) == Put(EmptyMap, key, report)

\* probe_exit: reports[key] = report
probe_exit_reports(reports, key, report) == Put(reports, key, report)

\* The cache files a probe can be found with.
ProbeFiles ==
    {NoFile, [state |-> "empty", reports |-> EmptyMap]}
    \cup {probe_record([k \in Ks |-> "old"]) : Ks \in SUBSET {"None", "a"}}

\* ---- the methods of Construction

\* self.progress[factor] += 1
count(K, factor) ==
    [K EXCEPT !.progress = Put(@, factor, GetN(@, factor) + 1),
              !.counted = Put(@, factor, GetN(@, factor) + 1)]

\* if self.continued is False: ... self.ctx_enqueue_task(self.continuation)
enqueue_continuation(K) == [K EXCEPT !.continued = TRUE]

\* Construction.probe_execute
probe_execute(K, factor, x) ==
    LET key == probe_key(factor, x.dep)
        file == cache[module(factor)]
        r == probe_retrieve(file)
        entry(o) == [factor |-> factor, key |-> key, file |-> file.state, outcome |-> o,
                     recorded |-> <<module(factor), key>> \in recorded]
    IN  IF r.raised
        THEN [K EXCEPT !.halted = "FileNotFoundError",
                       !.probe_log = @ \cup {entry("FileNotFoundError")}]
        ELSE IF key \in DOMAIN r.reports
        THEN [count(K, factor) EXCEPT !.probe_log = @ \cup {entry("progress")}]
        ELSE [K EXCEPT !.threads = @ \cup {[factor |-> factor, dep |-> x.dep, key |-> key]},
                       !.probe_log = @ \cup {entry("deploy")}]

\* Construction.dispatch, one instruction of the set
dispatch_instruction(K, factor, x) ==
    IF x.op \in {"execute", "execute-redirection"}
    THEN [K EXCEPT !.command_queue = Append(@, [factor |-> factor, ins |-> x])]
    ELSE IF x.op \in {"directory", "link", "call"} THEN count(K, factor)
    ELSE IF x.op = "probe" THEN probe_execute(K, factor, x)
    ELSE K

RECURSIVE dispatch_instructions(_, _, _)
dispatch_instructions(K, factor, xs) ==
    IF xs = <<>> \/ K.halted # "none" THEN K
    ELSE dispatch_instructions(dispatch_instruction(K, factor, Head(xs)), factor, Tail(xs))

\* Construction.dispatch
dispatch(K, factor) ==
    LET K1 == dispatch_instructions([K EXCEPT !.progress = Put(@, factor, 0)],
                                    factor, K.tracking[factor][1])
    IN  IF K1.halted # "none" THEN K1
        ELSE IF GetN(K1.progress, factor) >= Len(K1.tracking[factor][1])
        THEN enqueue_continuation([K1 EXCEPT !.activity = @ \cup {factor}])
        ELSE K1

\* Construction.collect, the instruction sets of a factor: [hang, tracks]
collect_tracks(f, factor, dependents) ==
    IF kinds[module(factor)] = "probe"
    THEN LET ds == SetToSeq(dependents)
         IN  [hang |-> FALSE,
              tracks |-> << [i \in 1..Len(ds) |-> [op |-> "probe", dep |-> ds[i]]] >>]
    ELSE LET w == FactorWork(kinds[module(factor)])
             xf == transform(w.ctx, f, w.sources)
             rd == reduce(w.ctx.hasSources, w.rc, collect_filter(xf.ins, f), w.sources)
         IN  [hang |-> xf.hang, tracks |-> <<xf.ins, rd>>]

RECURSIVE Instructions(_)
Instructions(tracks) ==
    IF tracks = <<>> THEN 0 ELSE Len(Head(tracks)) + Instructions(Tail(tracks))

\* Construction.collect
Construction_collect(K, factor, dependents) ==
    LET c == collect_tracks(K.filter, factor, dependents)
        tracks == GetL(K.tracking, factor) \o c.tracks
        K1 == [K EXCEPT !.tracking = Put(@, factor, tracks),
                        !.collected = Put(@, factor, GetN(@, factor) + Instructions(c.tracks))]
    IN  IF c.hang
        THEN [K EXCEPT !.halted = "hang", !.tracking = Put(@, factor, GetL(@, factor))]
        ELSE IF tracks # <<>>
        THEN dispatch([K1 EXCEPT !.progress = Put(@, factor, -1)], factor)
        ELSE enqueue_continuation([K1 EXCEPT !.activity = @ \cup {factor}])

\* Construction.finish: del self.progress[x]; del self.tracking[x]
RECURSIVE finish_delete(_, _)
finish_delete(K, factors) ==
    IF factors = <<>> \/ K.halted # "none" THEN K
    ELSE LET x == Head(factors)
             K1 == [K EXCEPT !.progress = Del(@, x)]
         IN  IF x \notin DOMAIN K.tracking THEN [K1 EXCEPT !.halted = "KeyError"]
             ELSE finish_delete([K1 EXCEPT !.tracking = Del(@, x)], Tail(factors))

\* self.sequence.send(factors): the generator runs from its yield to the next
\* yield, or returns.
sequence_send(K, factors) ==
    IF K.gpc \notin {"primed", "yielded"} THEN [K EXCEPT !.gpc = "stopped"]
    ELSE LET first == K.gpc = "primed"
             st == IF first
                   THEN [working |-> K.working, tree |-> K.tree, new |-> K.new, err |-> FALSE]
                   ELSE complete("libconstruct",
                                 [working |-> K.working, tree |-> K.tree, new |-> {},
                                  err |-> FALSE],
                                 K.inverse, SetToSeq(factors))
         IN  IF st.err THEN [K EXCEPT !.halted = "KeyError", !.gpc = "raised"]
             ELSE [K EXCEPT !.working = st.working,
                            !.tree = st.tree,
                            !.new = st.new,
                            !.received = IF first THEN @ ELSE factors,
                            !.completed = IF first THEN @ ELSE @ \cup factors,
                            !.disciplined = IF first THEN @ /\ factors = {}
                                            ELSE @ /\ factors \subseteq (K.emitted \ K.completed),
                            !.emitted = IF st.working # {} THEN @ \cup st.new ELSE @,
                            !.gpc = IF st.working # {} THEN "yielded" ELSE "stopped"]

\* Construction.finish: for x in work: self.collect(x, refs, deps.get(x, ()))
RECURSIVE finish_collect(_, _, _)
finish_collect(K, work, deps) ==
    IF work = <<>> \/ K.halted # "none" THEN K
    ELSE finish_collect(Construction_collect(K, Head(work), Get(deps, Head(work))),
                        Tail(work), deps)

\* Construction.finish
finish(K, factors) ==
    LET K1 == finish_delete(K, SetToSeq(factors))
        K2 == IF K1.halted # "none" THEN K1 ELSE sequence_send(K1, factors)
    IN  IF K2.halted # "none" THEN K2
        ELSE IF K2.gpc = "stopped" THEN [K2 EXCEPT !.terminated = TRUE]
        ELSE finish_collect(K2, SetToSeq(K2.new), dependents_of(K2.inverse, K2.new))

\* Mutant of free_slots: the running subprocesses are not subtracted.
free_slots_all(limit, running) == limit

\* drain_process_queue: self.process_limit - self.process_count
free_slots(limit, running) == limit - running

\* drain_process_queue: popleft, process_execute, process_count += 1
RECURSIVE drain_start(_, _)
drain_start(K, pcount) ==
    IF pcount <= 0 THEN K
    ELSE LET cmd == Head(K.command_queue)
         IN  drain_start([K EXCEPT !.command_queue = Tail(@),
                                   !.procs = Put(@, cmd.factor, GetN(@, cmd.factor) + 1),
                                   !.process_count = @ + 1],
                         pcount - 1)

\* Construction.drain_process_queue
drain_process_queue(K) ==
    LET nitems == Len(K.command_queue)
    IN  IF nitems > 0
        THEN drain_start(K, Min(free_slots(process_limit, K.process_count), nitems))
        ELSE K

\* continuation: self.progress[x] >= len(tracking[0])
set_done(n, size) == n >= size

\* Construction.continuation, `for x in factors`: S is [K, completions]
RECURSIVE continuation_factors(_, _)
continuation_factors(S, factors) ==
    IF factors = <<>> \/ S.K.halted # "none" THEN S
    ELSE LET x == Head(factors)
             tr == GetL(S.K.tracking, x)
             Kt == [S.K EXCEPT !.tracking = Put(@, x, tr)]
             S1 == IF tr = <<>>
                   THEN [K |-> Kt, completions |-> S.completions \cup {x}]
                   ELSE IF set_done(GetN(S.K.progress, x), Len(tr[1]))
                   THEN LET Kp == [S.K EXCEPT !.tracking = Put(@, x, Tail(tr)),
                                              !.progress = Put(@, x, -1)]
                        IN  IF Tail(tr) = <<>>
                            THEN [K |-> Kp, completions |-> S.completions \cup {x}]
                            ELSE [K |-> dispatch(Kp, x), completions |-> S.completions]
                   ELSE S
         IN  continuation_factors(S1, Tail(factors))

\* Construction.continuation
continuation(K) ==
    LET K0 == [K EXCEPT !.continued = FALSE, !.activity = {}]
        S == continuation_factors([K |-> K0, completions |-> {}], SetToSeq(K.activity))
        K1 == IF S.K.halted # "none" \/ S.completions = {} THEN S.K
              ELSE finish(S.K, S.completions)
    IN  IF K1.halted # "none" THEN K1 ELSE drain_process_queue(K1)

\* ---- the state as a record, and back

Current(f) ==
    [filter |-> f,
     tracking |-> tracking, progress |-> progress, process_count |-> process_count,
     command_queue |-> command_queue, continued |-> continued, activity |-> activity,
     procs |-> procs, threads |-> threads, terminated |-> terminated, halted |-> halted,
     probe_log |-> probe_log, collected |-> collected, counted |-> counted,
     gpc |-> gpc, tree |-> tree, inverse |-> inverse, working |-> working, new |-> new,
     received |-> received, completed |-> completed, emitted |-> emitted,
     disciplined |-> disciplined]

Becomes(K) ==
    /\ tracking' = K.tracking
    /\ progress' = K.progress
    /\ process_count' = K.process_count
    /\ command_queue' = K.command_queue
    /\ continued' = K.continued
    /\ activity' = K.activity
    /\ procs' = K.procs
    /\ threads' = K.threads
    /\ terminated' = K.terminated
    /\ halted' = K.halted
    /\ probe_log' = K.probe_log
    /\ collected' = K.collected
    /\ counted' = K.counted
    /\ gpc' = K.gpc
    /\ tree' = K.tree
    /\ inverse' = K.inverse
    /\ working' = K.working
    /\ new' = K.new
    /\ received' = K.received
    /\ completed' = K.completed
    /\ emitted' = K.emitted
    /\ disciplined' = K.disciplined

\* ---- the actions

\* The import graphs and targets of a Construction: acyclic.
ConsGraphs ==
    {[m \in Modules |-> {e[2] : e \in {f \in E : f[1] = m}}] :
        E \in SUBSET {<<"a", "b">>, <<"a", "c">>, <<"b", "c">>}}

ConsTargets == {{"a"}, {"a", "b"}, {"a", "c"}}

\* Construction.__init__.  The modules that are not reached play no part.
ConsInit ==
    /\ impl = "libconstruct"
    /\ dg \in ConsGraphs
    /\ targets \in ConsTargets
    /\ gpc = "created"
    /\ tree = EmptyMap
    /\ inverse = EmptyMap
    /\ working = {}
    /\ new = {}
    /\ received = {}
    /\ completed = {}
    /\ emitted = {}
    /\ emitc = [m \in Modules |-> 0]
    /\ disciplined = TRUE
    /\ k_reconstruct \in BOOLEAN
    /\ k_requirement = <<>>
    /\ k_filter = <<>>
    /\ kinds \in [Modules -> FactorKinds]
    /\ kinds["a"] \in {"library", "built", "interfaces"}
    /\ kinds["b"] = "library"
    /\ kinds["c"] \in {"probe", "library", "internal", "inherit"}
    /\ \A m \in Modules \ Reach(dg, targets) : kinds[m] = "library"
    /\ keyed \in BOOLEAN
    /\ cache \in [Modules -> ProbeFiles]
    /\ \A m \in Modules : kinds[m] # "probe" => cache[m] = NoFile
    /\ (\A m \in Modules : kinds[m] # "probe") => ~keyed
    /\ process_limit \in 1..MaxProcessors
    /\ runs = 1
    /\ tracking = EmptyMap
    /\ progress = EmptyMap
    /\ process_count = 0
    /\ command_queue = <<>>
    /\ continued = FALSE
    /\ activity = {}
    /\ procs = EmptyMap
    /\ threads = {}
    /\ tasks = {}
    /\ terminated = FALSE
    /\ halted = "none"
    /\ probe_log = {}
    /\ recorded = {}
    /\ collected = EmptyMap
    /\ counted = EmptyMap
    /\ UpdIdle
    /\ CollIdle
    /\ MergeIdle
    /\ QueueIdle

ConsStatic == <<impl, dg, targets, emitc, k_reconstruct, k_requirement,
                kinds, keyed, process_limit>>

\* Construction.actuate
ConsActuate ==
    /\ gpc = "created"
    /\ halted = "none"
    /\ LET f == actuate_filter(k_reconstruct, k_requirement)
           st == traverse_all("libconstruct", dg, TraverseState, targets)
           K0 == [Current(f) EXCEPT !.tree = st.tree, !.inverse = st.inverse,
                                    !.working = st.working, !.new = st.working,
                                    !.gpc = "primed"]
           K1 == finish(K0, {})
       IN  /\ k_filter' = <<f>>
           /\ Becomes(IF K1.halted # "none" THEN K1 ELSE drain_process_queue(K1))
    /\ UNCHANGED <<ConsStatic, cache, runs, tasks, recorded>>
    /\ UNCHANGED <<updVars, collVars>>
    /\ UNCHANGED <<mergeVars, queueVars>>

\* Construction.process_exit, called when a subprocess of the factor exits.
ProcessExit(factor) ==
    /\ halted = "none"
    /\ GetN(procs, factor) > 0
    /\ LET K == count(Current(k_filter[1]), factor)
       IN  Becomes(enqueue_continuation(
               [K EXCEPT !.process_count = @ - 1,
                         !.procs = Put(@, factor, @[factor] - 1),
                         !.activity = @ \cup {factor}]))
    /\ UNCHANGED <<ConsStatic, k_filter, cache, runs, tasks, recorded>>
    /\ UNCHANGED <<updVars, collVars>>
    /\ UNCHANGED <<mergeVars, queueVars>>

\* Construction.probe_dispatch, in the thread: deploy() returns its report
\* and probe_exit is enqueued.
ProbeDispatch(t) ==
    /\ halted = "none"
    /\ t \in threads
    /\ threads' = threads \ {t}
    /\ tasks' = tasks \cup {[factor |-> t.factor, key |-> t.key, report |-> module(t.dep)]}
    /\ UNCHANGED <<seqVars, updVars, filtVars, collVars>>
    /\ UNCHANGED <<mergeVars, queueVars>>
    /\ UNCHANGED <<kinds, keyed, process_limit, cache, runs, tracking, progress,
                   process_count, command_queue, continued, activity, procs,
                   terminated, halted, probe_log, recorded, collected, counted>>

\* Construction.probe_exit
ProbeExit(t) ==
    /\ halted = "none"
    /\ t \in tasks
    /\ tasks' = tasks \ {t}
    /\ LET m == module(t.factor)
           K == count(Current(k_filter[1]), t.factor)
           K1 == [K EXCEPT !.activity = @ \cup {t.factor}]
           r == probe_retrieve(cache[m])
       IN  IF r.raised
           THEN /\ Becomes([K1 EXCEPT !.halted = "FileNotFoundError"])
                /\ UNCHANGED <<cache, recorded>>
           ELSE /\ cache' = [cache EXCEPT
                               ![m] = probe_record(probe_exit_reports(r.reports, t.key, t.report))]
                /\ recorded' = recorded \cup {<<m, t.key>>}
                /\ Becomes(enqueue_continuation(K1))
    /\ UNCHANGED <<ConsStatic, k_filter, runs>>
    /\ UNCHANGED <<updVars, collVars>>
    /\ UNCHANGED <<mergeVars, queueVars>>

\* Construction.continuation, the enqueued task
Continuation ==
    /\ halted = "none"
    /\ continued
    /\ Becomes(continuation(Current(k_filter[1])))
    /\ UNCHANGED <<ConsStatic, k_filter, cache, runs, tasks, recorded>>
    /\ UNCHANGED <<updVars, collVars>>
    /\ UNCHANGED <<mergeVars, queueVars>>

\* Construction.__init__ again: another Construction of the same factors
\* after the first has terminated.  The cache files are what remains.
Restart ==
    /\ terminated
    /\ halted = "none"
    /\ runs < MaxRuns
    /\ runs' = runs + 1
    /\ gpc' = "created"
    /\ tree' = EmptyMap
    /\ inverse' = EmptyMap
    /\ working' = {}
    /\ new' = {}
    /\ received' = {}
    /\ completed' = {}
    /\ emitted' = {}
    /\ disciplined' = TRUE
    /\ k_filter' = <<>>
    /\ tracking' = EmptyMap
    /\ progress' = EmptyMap
    /\ process_count' = 0
    /\ command_queue' = <<>>
    /\ continued' = FALSE
    /\ activity' = {}
    /\ procs' = EmptyMap
    /\ threads' = {}
    /\ tasks' = {}
    /\ terminated' = FALSE
    /\ probe_log' = {}
    /\ collected' = EmptyMap
    /\ counted' = EmptyMap
    /\ UNCHANGED <<ConsStatic, cache, halted, recorded>>
    /\ UNCHANGED <<updVars, collVars>>
    /\ UNCHANGED <<mergeVars, queueVars>>

\* Every factor a Construction can hold.
Factors == DOMAIN tracking \cup DOMAIN procs \cup emitted

ConsNext ==
    \/ ConsActuate
    \/ \E factor \in DOMAIN procs : ProcessExit(factor)
    \/ \E t \in threads : ProbeDispatch(t)
    \/ \E t \in tasks : ProbeExit(t)
    \/ Continuation
    \/ Restart

SpecCons == ConsInit /\ [][ConsNext]_vars

----------------------------------------------------------------------------
\* Claims about Construction.

\* A command of the factor is queued, or a subprocess of it is running.
Busy(f) ==
    \/ \E i \in DOMAIN command_queue : command_queue[i].factor = f
    \/ GetN(procs, f) > 0

\* A probe instruction of the factor is with its thread or its probe_exit task.
Unresolved(f) ==
    \/ \E t \in threads : t.factor = f
    \/ \E t \in tasks : t.factor = f

\* Every factor sent to the sequencer as completed had every instruction of
\* every instruction set collected for it counted in progress.
FinishedAfterCounted ==
    \A f \in completed :
        GetN(counted, f) = GetN(collected, f) /\ ~Busy(f) /\ ~Unresolved(f)

\* C4: finish sends a factor to the sequencer as completed only after every
\* instruction of every instruction set collected for it has been counted in
\* progress; so no instruction of a factor is dispatched while a subprocess
\* of a factor it depends on is still queued or running.
C4_DependenciesIdleAtDispatch ==
    /\ FinishedAfterCounted
    /\ \A f \in emitted : \A g \in Factors : module(g) \in dg[module(f)] => ~Busy(g)

\* C5: process_count stays between 0 and process_limit and is the number of
\* subprocesses started by process_execute whose process_exit has not run.
C5_ProcessCountWithinLimit ==
    /\ 0 <= process_count
    /\ process_count <= process_limit
    /\ process_count = Total(procs)

\* Every slot is taken, by subprocesses of two factors, and more commands wait.
C5_Witness ==
    /\ process_limit > 1
    /\ process_count = process_limit
    /\ command_queue # <<>>
    /\ Cardinality({f \in DOMAIN procs : procs[f] > 0}) > 1

\* C9: once probe_exit has recorded a report for a key of a probe, a later
\* probe instruction of that probe with that key advances progress by one and
\* deploys nothing, and the reports recorded stay in the cache when reports
\* for other keys are recorded.
C9_RecordedReportReused ==
    /\ \A e \in probe_log :
           e.recorded => e.outcome = "progress" /\ ~Unresolved(e.factor)
    /\ \A r \in recorded :
           cache[r[1]].state = "reports" /\ r[2] \in DOMAIN cache[r[1]].reports

\* A probe instruction found its report, recorded by probe_exit before a
\* report for another key of the probe was recorded.
C9_Witness ==
    \E e \in probe_log :
        /\ e.recorded
        /\ e.outcome = "progress"
        /\ \E r \in recorded : r[1] = module(e.factor) /\ r[2] # e.key
        /\ GetN(progress, e.factor) = 1

\* C10: when the cache file of the probe does not exist or is empty,
\* probe_retrieve returns an empty mapping and probe_execute deploys the probe.
C10_DeployedWithoutCache ==
    \A e \in probe_log : e.file \in {"absent", "empty"} => e.outcome = "deploy"

\* C16: within one Construction the deploy function of a probe is called at
\* most once for a key of the probe, also when the probe instructions of
\* several dependents with the same key are dispatched before a probe_exit
\* has recorded a report.
C16_DeployedOncePerKey ==
    \A d \in probe_log : \A e \in probe_log :
        (/\ d.outcome = "deploy"
         /\ e.outcome = "deploy"
         /\ module(d.factor) = module(e.factor)
         /\ d.key = e.key) => d = e

\* ---- liveness

\* The commands of a factor waiting in command_queue.
Queued(f) == Cardinality({i \in DOMAIN command_queue : command_queue[i].factor = f})

\* The instructions of a factor that were dispatched and not yet counted.
InFlight(f) ==
    Queued(f) + GetN(procs, f)
        + Cardinality({t \in threads : t.factor = f})
        + Cardinality({t \in tasks : t.factor = f})

\* Everything of a factor that is queued, running or counted in progress
\* belongs to the first set of its tracking: nothing of an earlier set is
\* left and nothing of a later set was dispatched.
CurrentSetAccounted ==
    halted = "none" =>
        \A f \in Factors :
            LET tr == GetL(tracking, f)
            IN  IF tr = <<>> THEN InFlight(f) = 0
                ELSE /\ GetN(progress, f) >= 0
                     /\ GetN(progress, f) + InFlight(f) = Len(tr[1])

\* The reduce set of a factor is its current set and a command of it runs.
ReductionStarted(f) ==
    /\ kinds[module(f)] # "probe"
    /\ Len(GetL(tracking, f)) = 1
    /\ GetN(procs, f) > 0

\* The transform set of a factor is its current set and a command of it runs.
TransformationRunning(f) ==
    /\ kinds[module(f)] # "probe"
    /\ Len(GetL(tracking, f)) = 2
    /\ GetN(procs, f) > 0

\* C14: the instruction sets of a factor are dispatched in the order they
\* were collected, nothing of a later set is performed or queued before the
\* progress of the current set reached its size, and the reduction command
\* of a factor never runs while a transformation subprocess of that factor
\* has not exited.
C14_SetsInOrder ==
    /\ CurrentSetAccounted
    /\ \A f \in Factors : \A g \in Factors :
           (module(f) = module(g) /\ ReductionStarted(f)) => ~TransformationRunning(g)

ConsLiveNext ==
    \/ ConsActuate
    \/ \E factor \in DOMAIN procs : ProcessExit(factor)
    \/ \E t \in threads : ProbeDispatch(t)
    \/ \E t \in tasks : ProbeExit(t)
    \/ Continuation

\* The tasks enqueued are run, every subprocess exits and every probe
\* returns.  ConsActuate and Continuation are enabled exactly when their
\* guards hold, and their weak fairness is written with the guard in the
\* place of ENABLED.
SpecConsLive ==
    /\ ConsInit
    /\ [][ConsLiveNext]_vars
    /\ ([]<>(~(gpc = "created" /\ halted = "none")) \/ []<><<ConsActuate>>_vars)
    /\ ([]<>(~(continued /\ halted = "none")) \/ []<><<Continuation>>_vars)
    /\ WF_vars(\E factor \in DOMAIN procs : ProcessExit(factor))
    /\ WF_vars(\E t \in threads : ProbeDispatch(t))
    /\ WF_vars(\E t \in tasks : ProbeExit(t))

\* C6: for an acyclic graph, every command appended to command_queue is
\* started, and terminate() is called after every reachable factor has been
\* collected and finished.
C6_StartedAndTerminated ==
    /\ []<>(command_queue = <<>>)
    /\ <>(/\ terminated
          /\ BatchModules(emitted) = Reach(dg, targets)
          /\ emitted \subseteq completed)

====
